---- MODULE Spec2Model ----
(***************************************************************************)
(* Model of nlp/QA_Deploy.ipynb: the notebook that defines the two hosting *)
(* callbacks (model_fn, transform_fn), archives the model artifacts,       *)
(* builds the serving image and launches, tests and removes an endpoint.   *)
(*                                                                         *)
(* Library calls (gluonnlp, mxnet, docker, the SageMaker SDK) are opaque:  *)
(* each one either returns or raises, and what it returns is drawn from a  *)
(* bounded set.  Everything the notebook's own code does with the values   *)
(* (path joining, unpacking, the n-best loop, the JSON conversions, the    *)
(* cell order) is modelled as the code does it.                            *)
(***************************************************************************)
EXTENDS Integers, Sequences, FiniteSets, TLC

\* ------------------------------------------------------------------ bounds
MaxExamples == 2      \* examples carried by one request
MaxRequests == 2      \* requests the endpoint receives in one run
MaxNbest == 4         \* length of an n-best list returned by predict

None == [t |-> "None", v |-> "None"]
NoneType == "None"

\* ------------------------------------------------------ python values, JSON
PyStr(s) == [t |-> "str", v |-> s]
PyTuple(q) == [t |-> "tuple", v |-> q]
PyList(q) == [t |-> "list", v |-> q]
PyDict(f) == [t |-> "dict", v |-> f]

JStr(s) == [t |-> "jstr", v |-> s]
JArr(q) == [t |-> "jarr", v |-> q]
JObj(f) == [t |-> "jobj", v |-> f]
\* a request body that is not a JSON document
NotJson == [t |-> "notjson", v |-> "<html>"]

\* json.dumps writes every dict key as a string
JsonKey(k) == ToString(k)

RECURSIVE json_dumps(_)
json_dumps(x) ==
    CASE x.t = "str" -> JStr(x.v)
      [] x.t \in {"tuple", "list"} ->
            JArr([i \in 1..Len(x.v) |-> json_dumps(x.v[i])])
      [] x.t = "dict" ->
            JObj([s \in {JsonKey(k) : k \in DOMAIN x.v} |->
                    json_dumps(x.v[CHOOSE k \in DOMAIN x.v : JsonKey(k) = s])])

\* json.loads gives lists for arrays and string-keyed dicts for objects
RECURSIVE json_loads(_)
json_loads(j) ==
    CASE j.t = "jstr" -> PyStr(j.v)
      [] j.t = "jarr" -> PyList([i \in 1..Len(j.v) |-> json_loads(j.v[i])])
      [] j.t = "jobj" -> PyDict([s \in DOMAIN j.v |-> json_loads(j.v[s])])

\* ------------------------------------------------------------- test data
\* (question, context) pairs a client may submit
Examples == << <<"Which NFL team represented the AFC at Super Bowl 50?", "Super Bowl 50">>,
              <<"Where did Super Bowl 50 take place?", "Super Bowl 50">> >>

\* candidate answers predict may rank; prob is in units of 1e-5
Pool == << [text |-> "Denver Broncos", prob |-> 99364],
           [text |-> "The American Football Conference (AFC) champion Denver Broncos", prob |-> 228],
           [text |-> "Broncos", prob |-> 196],
           [text |-> "AFC", prob |-> 107],
           [text |-> "empty", prob |-> 0] >>

\* the n-best lists predict may return: the 1..MaxNbest best candidates of
\* the pool, or the three that follow the best one
Min(a, b) == IF a < b THEN a ELSE b

NbestLists ==
    { SubSeq(Pool, 1, k) : k \in 1..Min(MaxNbest, Len(Pool)) }
    \cup { SubSeq(Pool, 2, 4) }

\* ------------------------------------------------------------ code/serve.py
ModelDir == "/opt/ml/model"
ParamsFile == "bert_qa-7eb11865.params"

Ok(x) == [ok |-> TRUE, value |-> x, err |-> "none"]
Raise(e) == [ok |-> FALSE, value |-> None, err |-> e]

\* variant: the transform is left out of the returned handle
model_fn_pair(params_path, model_dir, files, libOk) ==
    IF ~libOk THEN Raise("LibraryError")
    ELSE LET path == IF Len(model_dir) > 0
                     THEN model_dir \o "/" \o params_path
                     ELSE params_path
         IN  IF path \notin files THEN Raise("LoadError")
             ELSE Ok(PyTuple(<< [kind |-> "BertForQA", params |-> path],
                                [kind |-> "Vocab", params |-> "book_corpus_wiki_en_uncased"] >>))

\* model_fn(params_path, model_dir): files is the file system it runs on,
\* libOk whether the library calls (get_model, BertForQA, BERTTokenizer,
\* SQuADTransform) return rather than raise.  The cell imports the module as
\* bert.bert_qa_evaluate and refers to it as bert_qa_evaluate; whether that
\* name resolves where serve.py runs is part of libOk, here and in
\* transform_fn.
model_fn(params_path, model_dir, files, libOk) ==
    IF ~libOk THEN Raise("LibraryError")
    ELSE LET path == IF Len(model_dir) > 0
                     THEN model_dir \o "/" \o params_path
                     ELSE params_path
         IN  IF path \notin files THEN Raise("LoadError")
             ELSE Ok(PyTuple(<< [kind |-> "BertForQA", params |-> path],
                                [kind |-> "Vocab", params |-> "book_corpus_wiki_en_uncased"],
                                [kind |-> "SQuADTransform", params |-> "is_training=False"] >>))

\* bert_qa_evaluate._test_example_transform: one SQuAD tuple per submitted
\* (question, context) pair, numbered from 0 in the order submitted
WellFormed(data) ==
    /\ data.t = "list"
    /\ \A i \in 1..Len(data.v) :
          /\ data.v[i].t = "list"
          /\ Len(data.v[i].v) >= 2

test_example_transform(data) ==
    [i \in 1..Len(data.v) |->
        [example_id |-> i - 1,
         question   |-> data.v[i].v[1],
         context    |-> data.v[i].v[2]]]

\* '%.2f' of prob * 100, prob in units of 1e-5 (no pool value is a tie)
Percent2f(prob) ==
    LET h == (prob + 5) \div 10
        frac == h % 100
    IN  ToString(h \div 100) \o "." \o
        (IF frac < 10 THEN "0" \o ToString(frac) ELSE ToString(frac))

\* variant: the probability is printed without the factor 100
FormatCandidateNoPercent(c) == Percent2f(c.prob \div 100) \o "% \t " \o c.text

\* '%.2f%% \t %s' % (nbest[i][1] * 100, nbest[i][0])
FormatCandidate(c) == Percent2f(c.prob) \o "% \t " \o c.text

\* variant: the candidates are appended unformatted, as (text, probability)
NbestPredictionRaw(nbest) ==
    IF Len(nbest) < 3 THEN Raise("IndexError")
    ELSE Ok(PyList([i \in 1..3 |->
                PyTuple(<< PyStr(nbest[i].text), PyStr(Percent2f(nbest[i].prob)) >>)]))

\* the inner loop: for i in range(3): nbest_prediction.append(...)
NbestPrediction(nbest) ==
    IF Len(nbest) < 3 THEN Raise("IndexError")
    ELSE Ok(PyList([i \in 1..3 |-> PyStr(FormatCandidate(nbest[i]))]))

\* variant: the id is read once, before the loop
AllPredictionsOneKey(tuples, nbests) ==
    IF \E i \in 1..Len(tuples) : ~NbestPrediction(nbests[i]).ok
    THEN Raise("IndexError")
    ELSE IF Len(tuples) = 0 THEN Ok(PyDict(<< >>))
    ELSE Ok(PyDict([k \in {tuples[1].example_id} |->
                       NbestPrediction(nbests[Len(tuples)]).value]))

\* variant: an example whose candidates run out is skipped
AllPredictionsSkip(tuples, nbests) ==
    LET kept == { i \in 1..Len(tuples) : NbestPrediction(nbests[i]).ok }
        ids == { tuples[i].example_id : i \in kept }
        last(k) == CHOOSE i \in kept :
                      /\ tuples[i].example_id = k
                      /\ \A j \in kept : tuples[j].example_id = k => j <= i
    IN  Ok(PyDict([k \in ids |-> NbestPrediction(nbests[last(k)]).value]))

\* the outer loop over data_transform: all_predictions[f_id] = nbest_prediction,
\* a later example overwriting an earlier one with the same id
AllPredictions(tuples, nbests) ==
    IF \E i \in 1..Len(tuples) : ~NbestPrediction(nbests[i]).ok
    THEN Raise("IndexError")
    ELSE LET ids == { tuples[i].example_id : i \in 1..Len(tuples) }
             last(k) == CHOOSE i \in 1..Len(tuples) :
                           /\ tuples[i].example_id = k
                           /\ \A j \in 1..Len(tuples) :
                                 tuples[j].example_id = k => j <= i
         IN  Ok(PyDict([k \in ids |-> NbestPrediction(nbests[last(k)]).value]))

\* variant: the request's content type is returned in place of the desired one
transform_fn_echo(model, input_data, input_content_type, output_content_type, nbests, libOk) ==
    IF ~(model.t \in {"tuple", "list"} /\ Len(model.v) = 3)
    THEN [ok |-> FALSE, body |-> None, ctype |-> NoneType, err |-> "ValueError"]
    ELSE IF input_data.t = "notjson"
    THEN [ok |-> FALSE, body |-> None, ctype |-> NoneType, err |-> "JSONDecodeError"]
    ELSE LET data == json_loads(input_data)
         IN  IF ~WellFormed(data)
             THEN [ok |-> FALSE, body |-> None, ctype |-> NoneType, err |-> "TypeError"]
             ELSE IF ~libOk
             THEN [ok |-> FALSE, body |-> None, ctype |-> NoneType, err |-> "LibraryError"]
             ELSE LET all_predictions == AllPredictions(test_example_transform(data), nbests)
                  IN  IF ~all_predictions.ok
                      THEN [ok |-> FALSE, body |-> None, ctype |-> NoneType, err |-> all_predictions.err]
                      ELSE [ok |-> TRUE, body |-> json_dumps(all_predictions.value),
                            ctype |-> input_content_type, err |-> "none"]

\* transform_fn(model, input_data, input_content_type, output_content_type):
\* nbests[i] is what predict returns for the i-th example, libOk whether
\* get_all_results and predict return rather than raise
transform_fn(model, input_data, input_content_type, output_content_type, nbests, libOk) ==
    IF ~(model.t \in {"tuple", "list"} /\ Len(model.v) = 3)
    THEN [ok |-> FALSE, body |-> None, ctype |-> NoneType, err |-> "ValueError"]
    ELSE IF input_data.t = "notjson"
    THEN [ok |-> FALSE, body |-> None, ctype |-> NoneType, err |-> "JSONDecodeError"]
    ELSE LET data == json_loads(input_data)
         IN  IF ~WellFormed(data)
             THEN [ok |-> FALSE, body |-> None, ctype |-> NoneType, err |-> "TypeError"]
             ELSE IF ~libOk
             THEN [ok |-> FALSE, body |-> None, ctype |-> NoneType, err |-> "LibraryError"]
             ELSE LET all_predictions == AllPredictions(test_example_transform(data), nbests)
                  IN  IF ~all_predictions.ok
                      THEN [ok |-> FALSE, body |-> None, ctype |-> NoneType, err |-> all_predictions.err]
                      ELSE [ok |-> TRUE, body |-> json_dumps(all_predictions.value),
                            ctype |-> output_content_type, err |-> "none"]

\* ------------------------------------------------------------ the notebook
\* variant: the clean-up cell placed before the test cell
CellsDeleteFirst == << "define_callbacks", "archive", "write_dockerfile", "ecr_login",
                       "docker_build", "create_model", "deploy", "delete_endpoint",
                       "predict", "print_output" >>

\* variant: the archive cell placed inside the container section
CellsArchiveLate == << "define_callbacks", "write_dockerfile", "archive", "ecr_login",
                       "docker_build", "create_model", "deploy", "predict",
                       "print_output", "delete_endpoint" >>

\* the code cells in document order
Cells == << "define_callbacks", "archive", "write_dockerfile", "ecr_login",
            "docker_build", "create_model", "deploy", "predict",
            "print_output", "delete_endpoint" >>

\* the section of the notebook each cell belongs to
StepOf(c) ==
    CASE c = "define_callbacks" -> 1
      [] c = "archive" -> 2
      [] c \in {"write_dockerfile", "ecr_login", "docker_build"} -> 3
      [] OTHER -> 4

\* files the notebook reads from its working directory
SourceFiles == { "code/serve.py", "serve.py", "bert/data/qa.py",
                 "bert/bert_qa_evaluate.py", "bert_qa_evaluate.py",
                 "bert_qa-7eb11865.params", "vocab.json" }

\* modules the first cell imports from the working directory
ImportedFiles == { "bert/data/qa.py", "bert/bert_qa_evaluate.py" }

\* the tar.add calls, in order
TarAdds == << "code/serve.py", "bert/data/qa.py", "bert_qa_evaluate.py",
              "bert_qa-7eb11865.params", "vocab.json" >>

\* variant: members stored under their base name
ArcNameFlat(name) == IF name = "code/serve.py" THEN "serve.py" ELSE name

\* tar.add(name) stores the file under arcname = name
ArcName(name) == name

\* MXNetModel(...) as constructed by the notebook
MXNetModel == [t |-> "MXNetModel",
               model_data  |-> [scheme |-> "file",
                                dir |-> "/home/ec2-user/SageMaker/partner-ml-bootcamp/nlp",
                                name |-> "model.tar.gz"],
               image       |-> "my-docker:inference",
               py_version  |-> "py3",
               entry_point |-> "serve.py",
               source_dir  |-> "."]

\* the file entry_point names, relative to the working directory:
\* os.path.join(source_dir, entry_point), normalised
EntryPointFile(m) ==
    IF m.source_dir = "." THEN m.entry_point
    ELSE m.source_dir \o "/" \o m.entry_point

my_test_examples ==
    PyTuple(<< PyTuple(<< PyStr("Which NFL team represented the AFC at Super Bowl 50?"),
                          PyStr("Super Bowl 50") >>),
               PyTuple(<< PyStr("Where did Super Bowl 50 take place?"),
                          PyStr("Super Bowl 50") >>) >>)

ContentTypes == { "application/json", NoneType }

\* a content type the caller may pass, or leave out
Omitted == "<omitted>"
Headers == { "application/json", Omitted }

\* input_content_type=None, output_content_type=None: an argument left out
\* takes its default
WithDefault(arg) == IF arg = Omitted THEN NoneType ELSE arg

\* request bodies another client may post to the endpoint
ExampleLists == { [i \in 1..n |-> Examples[((i - 1) % Len(Examples)) + 1]] : n \in 0..MaxExamples }
ClientBodies ==
    { json_dumps(PyList([i \in 1..Len(q) |->
                           PyList(<< PyStr(q[i][1]), PyStr(q[i][2]) >>)])) : q \in ExampleLists }
    \cup { NotJson, JStr("Where did Super Bowl 50 take place?") }

\* how the hosting service may call model_fn
HostCallArgs == { << ParamsFile, ModelDir >>, << ParamsFile, "" >>, << ModelDir, "" >> }

VARIABLES
    pc,              \* index in Cells of the next cell to run
    halted,          \* the run stopped on a cell that raised
    disk,            \* files in the notebook's working directory
    archive,         \* member names of model.tar.gz, in order
    namespace,       \* names bound in the kernel
    loggedIn,        \* docker is logged in to the registry
    imageBuilt,      \* my-docker:inference exists
    sagemaker_model, \* the MXNetModel object, or None
    endpoint,        \* "none", "InService" or "Deleted"
    hostState,       \* "down", "starting", "ready" or "failed"
    hostFiles,       \* files inside the serving container
    handle,          \* what model_fn returned to the hosting service
    modelFnLog,      \* results of the model_fn calls made so far
    netOutputs,      \* the n-best list the loaded net yields for each example
    requests,        \* requests received by the endpoint, with their outcome
    predictLog,      \* endpoint state at each predictor.predict call
    output,          \* the notebook variable output
    printed          \* what the print cell wrote

vars == << pc, halted, disk, archive, namespace, loggedIn, imageBuilt,
           sagemaker_model, endpoint, hostState, hostFiles, handle,
           modelFnLog, netOutputs, requests, predictLog, output, printed >>

nbVars == << pc, halted, disk, archive, namespace, loggedIn, imageBuilt,
             sagemaker_model, output, printed >>

Cur == IF ~halted /\ pc <= Len(Cells) THEN Cells[pc] ELSE "none"
Done == ~halted /\ pc > Len(Cells)

Init ==
    /\ pc = 1
    /\ halted = FALSE
    /\ disk \in SUBSET SourceFiles
    /\ archive = << >>
    /\ namespace = {}
    /\ loggedIn = FALSE
    /\ imageBuilt = FALSE
    /\ sagemaker_model = None
    /\ endpoint = "none"
    /\ hostState = "down"
    /\ hostFiles = {}
    /\ handle = None
    /\ modelFnLog = << >>
    /\ netOutputs = << >>
    /\ requests = << >>
    /\ predictLog = << >>
    /\ output = None
    /\ printed = {}

hostVars == << endpoint, hostState, hostFiles, handle, modelFnLog, netOutputs,
              requests, predictLog >>

\* ---- cell 1: imports, def model_fn, def transform_fn
DefineCallbacks ==
    /\ Cur = "define_callbacks"
    /\ \E libOk \in BOOLEAN :
          IF libOk /\ ImportedFiles \subseteq disk
          THEN /\ namespace' = namespace \cup {"model_fn", "transform_fn"}
               /\ pc' = pc + 1
               /\ UNCHANGED halted
          ELSE /\ halted' = TRUE
               /\ UNCHANGED << namespace, pc >>
    /\ UNCHANGED << disk, archive, loggedIn, imageBuilt, sagemaker_model, output, printed >>
    /\ UNCHANGED hostVars

\* ---- cell 2: with tarfile.open("model.tar.gz", "w:gz") as tar: tar.add(...)
\* the number of tar.add calls that return before one raises
AddsDone(files) ==
    IF \A i \in 1..Len(TarAdds) : TarAdds[i] \in files
    THEN Len(TarAdds)
    ELSE (CHOOSE i \in 1..Len(TarAdds) :
             /\ TarAdds[i] \notin files
             /\ \A j \in 1..(i - 1) : TarAdds[j] \in files) - 1

ArchiveCell ==
    /\ Cur = "archive"
    /\ LET n == AddsDone(disk)
       IN  /\ archive' = [i \in 1..n |-> ArcName(TarAdds[i])]
           /\ disk' = disk \cup {"model.tar.gz"}
           /\ IF n = Len(TarAdds)
              THEN pc' = pc + 1 /\ UNCHANGED halted
              ELSE halted' = TRUE /\ UNCHANGED pc
    /\ namespace' = namespace \cup {"tarfile"}
    /\ UNCHANGED << loggedIn, imageBuilt, sagemaker_model, output, printed >>
    /\ UNCHANGED hostVars

\* ---- cell 3: %%writefile Dockerfile
WriteDockerfile ==
    /\ Cur = "write_dockerfile"
    /\ disk' = disk \cup {"Dockerfile"}
    /\ pc' = pc + 1
    /\ UNCHANGED << halted, archive, namespace, loggedIn, imageBuilt,
                    sagemaker_model, output, printed >>
    /\ UNCHANGED hostVars

\* ---- cell 4: !$(aws ecr get-login ...); a shell escape never raises
EcrLogin ==
    /\ Cur = "ecr_login"
    /\ loggedIn' \in BOOLEAN
    /\ pc' = pc + 1
    /\ UNCHANGED << halted, disk, archive, namespace, imageBuilt,
                    sagemaker_model, output, printed >>
    /\ UNCHANGED hostVars

\* ---- cell 5: !docker build -t my-docker:inference . -f Dockerfile
DockerBuild ==
    /\ Cur = "docker_build"
    /\ imageBuilt' \in (IF "Dockerfile" \in disk THEN BOOLEAN ELSE {FALSE})
    /\ pc' = pc + 1
    /\ UNCHANGED << halted, disk, archive, namespace, loggedIn,
                    sagemaker_model, output, printed >>
    /\ UNCHANGED hostVars

\* ---- cell 6: sagemaker_model = MXNetModel(...)
CreateModel ==
    /\ Cur = "create_model"
    /\ \E roleOk \in BOOLEAN :
          IF roleOk
          THEN /\ sagemaker_model' = MXNetModel
               /\ namespace' = namespace \cup {"sagemaker", "sagemaker_model"}
               /\ pc' = pc + 1
               /\ UNCHANGED halted
          ELSE /\ halted' = TRUE
               /\ namespace' = namespace \cup {"sagemaker"}
               /\ UNCHANGED << sagemaker_model, pc >>
    /\ UNCHANGED << disk, archive, loggedIn, imageBuilt, output, printed >>
    /\ UNCHANGED hostVars

\* the serving container's files: the archive unpacked under the model directory
Unpacked(members) == { ModelDir \o "/" \o members[i] : i \in 1..Len(members) }

\* ---- cell 7: predictor = sagemaker_model.deploy(1, 'local')
DeployCell ==
    /\ Cur = "deploy"
    /\ "sagemaker_model" \in namespace
    /\ IF /\ imageBuilt
          /\ sagemaker_model.model_data.name \in disk
          /\ EntryPointFile(sagemaker_model) \in disk
       THEN /\ endpoint' = "InService"
            /\ hostState' = "starting"
            /\ hostFiles' = Unpacked(archive)
            /\ namespace' = namespace \cup {"predictor"}
            /\ pc' = pc + 1
            /\ UNCHANGED halted
       ELSE /\ halted' = TRUE
            /\ UNCHANGED << endpoint, hostState, hostFiles, namespace, pc >>
    /\ UNCHANGED << disk, archive, loggedIn, imageBuilt, sagemaker_model, output, printed >>
    /\ UNCHANGED << handle, modelFnLog, netOutputs, requests, predictLog >>

\* a request as the endpoint holds it: who sent it, the call made for it
\* (the model argument, and for an answered call what predict returned for
\* each example) and the reply
Request(src, input, accept) ==
    [src |-> src, input |-> input, content_type |-> "application/json",
     accept |-> accept, status |-> "pending", calls |-> 0, model |-> None,
     nbests |-> << >>,
     body |-> None, ctype |-> NoneType, err |-> "none"]

Sent == { i \in 1..Len(requests) : requests[i].src = "predictor" }

\* ---- cell 8: output = predictor.predict(my_test_examples)
\* the call serialises the examples and posts them; it blocks until the reply
PredictSend ==
    /\ Cur = "predict"
    /\ "predictor" \in namespace
    /\ Sent = {}
    /\ predictLog' = Append(predictLog, endpoint)
    /\ IF endpoint = "InService"
       THEN /\ requests' = Append(requests,
                   Request("predictor", json_dumps(my_test_examples), "application/json"))
            /\ UNCHANGED halted
       ELSE /\ halted' = TRUE
            /\ UNCHANGED requests
    /\ UNCHANGED << pc, disk, archive, namespace, loggedIn, imageBuilt,
                    sagemaker_model, output, printed >>
    /\ UNCHANGED << endpoint, hostState, hostFiles, handle, modelFnLog, netOutputs >>

PredictRecv ==
    /\ Cur = "predict"
    /\ \E i \in Sent :
          /\ requests[i].status # "pending"
          /\ IF requests[i].status = "ok"
             THEN /\ output' = json_loads(requests[i].body)
                  /\ namespace' = namespace \cup {"output"}
                  /\ pc' = pc + 1
                  /\ UNCHANGED halted
             ELSE /\ halted' = TRUE
                  /\ UNCHANGED << output, namespace, pc >>
    /\ UNCHANGED << disk, archive, loggedIn, imageBuilt, sagemaker_model, printed >>
    /\ UNCHANGED hostVars

\* ---- cell 9: for k in output.keys(): print(output[k])
PrintOutput ==
    /\ Cur = "print_output"
    /\ "output" \in namespace
    /\ printed' = { output.v[k] : k \in DOMAIN output.v }
    /\ pc' = pc + 1
    /\ UNCHANGED << halted, disk, archive, namespace, loggedIn, imageBuilt,
                    sagemaker_model, output >>
    /\ UNCHANGED hostVars

\* variant: the clean-up cell leaves the endpoint in service
DeleteEndpointKeep ==
    /\ Cur = "delete_endpoint"
    /\ "predictor" \in namespace
    /\ pc' = pc + 1
    /\ UNCHANGED << halted, disk, archive, namespace, loggedIn, imageBuilt,
                    sagemaker_model, output, printed >>
    /\ UNCHANGED hostVars

\* ---- cell 10: predictor.delete_endpoint()
DeleteEndpointCell ==
    /\ Cur = "delete_endpoint"
    /\ "predictor" \in namespace
    /\ endpoint' = "Deleted"
    /\ hostState' = "down"
    /\ handle' = None
    /\ pc' = pc + 1
    /\ UNCHANGED << halted, disk, archive, namespace, loggedIn, imageBuilt,
                    sagemaker_model, output, printed >>
    /\ UNCHANGED << hostFiles, modelFnLog, netOutputs, requests, predictLog >>

\* ------------------------------------------------------ the hosting service
\* variant: the model is loaded again by a second worker
HostStartAgain ==
    /\ endpoint = "InService"
    /\ hostState \in {"starting", "ready"}
    /\ Len(modelFnLog) < 2
    /\ \E args \in HostCallArgs, libOk \in BOOLEAN :
          LET r == model_fn(args[1], args[2], hostFiles, libOk)
          IN  /\ modelFnLog' = Append(modelFnLog, r)
              /\ handle' = r.value
              /\ hostState' = IF r.ok THEN "ready" ELSE "failed"
              /\ IF r.ok
                 THEN netOutputs' \in [1..Len(Examples) -> NbestLists]
                 ELSE UNCHANGED netOutputs
    /\ UNCHANGED nbVars
    /\ UNCHANGED << endpoint, hostFiles, requests, predictLog >>

\* model_fn: "Called once when hosting service starts"; load_parameters
\* fixes what the net computes
HostStart ==
    /\ endpoint = "InService"
    /\ hostState = "starting"
    /\ \E args \in HostCallArgs, libOk \in BOOLEAN :
          LET r == model_fn(args[1], args[2], hostFiles, libOk)
          IN  /\ modelFnLog' = Append(modelFnLog, r)
              /\ handle' = r.value
              /\ hostState' = IF r.ok THEN "ready" ELSE "failed"
              /\ IF r.ok
                 THEN netOutputs' \in [1..Len(Examples) -> NbestLists]
                 ELSE UNCHANGED netOutputs
    /\ UNCHANGED nbVars
    /\ UNCHANGED << endpoint, hostFiles, requests, predictLog >>

\* another client posts a request to the running endpoint
ClientInvoke ==
    /\ endpoint = "InService"
    /\ Cardinality({ i \in 1..Len(requests) : requests[i].src = "client" }) < MaxRequests - 1
    /\ \E input \in ClientBodies, accept \in Headers, content_type \in Headers :
          requests' = Append(requests, [Request("client", input, accept)
                                           EXCEPT !.content_type = content_type])
    /\ UNCHANGED nbVars
    /\ UNCHANGED << endpoint, hostState, hostFiles, handle, modelFnLog, netOutputs,
                    predictLog >>

\* the number of examples predict is called for
ExamplesIn(input) == IF input.t = "jarr" THEN Len(input.v) ELSE 0

\* what get_all_results and predict give for the examples of a request: the
\* loaded net is a function of the example
ExampleIndex(q) == CHOOSE k \in 1..Len(Examples) : Examples[k][1] = q
NetResults(input) ==
    [e \in 1..ExamplesIn(input) |-> netOutputs[ExampleIndex(input.v[e].v[1].v)]]

\* variant: all_predictions lives at module level and its entries are
\* extended, so a response carries what earlier requests left under the key
HostServeKeepsPredictions ==
    /\ endpoint = "InService"
    /\ hostState \in {"ready", "failed"}
    /\ \E i \in 1..Len(requests) :
          /\ requests[i].status = "pending"
          /\ \A j \in 1..(i - 1) : requests[j].status # "pending"
          /\ IF hostState = "failed"
             THEN requests' = [requests EXCEPT ![i].status = "error",
                                               ![i].err = "ModelNotLoaded"]
             ELSE \E libOk \in BOOLEAN :
                     LET nbests == NetResults(requests[i].input)
                         r == transform_fn(handle, requests[i].input,
                                           WithDefault(requests[i].content_type),
                                           WithDefault(requests[i].accept), nbests, libOk)
                         before(k) == { j \in 1..Len(requests) :
                                          /\ requests[j].status = "ok"
                                          /\ k \in DOMAIN requests[j].body.v }
                         kept(k) == IF before(k) = {} THEN << >>
                                    ELSE requests[CHOOSE j \in before(k) :
                                                     \A h \in before(k) : h <= j].body.v[k].v
                         body == IF r.ok
                                 THEN JObj([k \in DOMAIN r.body.v |->
                                              JArr(kept(k) \o r.body.v[k].v)])
                                 ELSE r.body
                     IN  requests' = [requests EXCEPT
                                         ![i].status = IF r.ok THEN "ok" ELSE "error",
                                         ![i].calls = @ + 1,
                                         ![i].model = handle,
                                         ![i].nbests = IF r.ok THEN nbests ELSE << >>,
                                         ![i].body = body,
                                         ![i].ctype = r.ctype,
                                         ![i].err = r.err]
    /\ UNCHANGED nbVars
    /\ UNCHANGED << endpoint, hostState, hostFiles, handle, modelFnLog, netOutputs,
                    predictLog >>

\* transform_fn: "Called once per request"; requests are served in the
\* order received
HostServe ==
    /\ endpoint = "InService"
    /\ hostState \in {"ready", "failed"}
    /\ \E i \in 1..Len(requests) :
          /\ requests[i].status = "pending"
          /\ \A j \in 1..(i - 1) : requests[j].status # "pending"
          /\ IF hostState = "failed"
             THEN requests' = [requests EXCEPT ![i].status = "error",
                                               ![i].err = "ModelNotLoaded"]
             ELSE \E libOk \in BOOLEAN :
                     LET nbests == NetResults(requests[i].input)
                         r == transform_fn(handle, requests[i].input,
                                           WithDefault(requests[i].content_type),
                                           WithDefault(requests[i].accept), nbests, libOk)
                     IN  requests' = [requests EXCEPT
                                         ![i].status = IF r.ok THEN "ok" ELSE "error",
                                         ![i].calls = @ + 1,
                                         ![i].model = handle,
                                         ![i].nbests = IF r.ok THEN nbests ELSE << >>,
                                         ![i].body = r.body,
                                         ![i].ctype = r.ctype,
                                         ![i].err = r.err]
    /\ UNCHANGED nbVars
    /\ UNCHANGED << endpoint, hostState, hostFiles, handle, modelFnLog, netOutputs,
                    predictLog >>

Next ==
    \/ DefineCallbacks
    \/ ArchiveCell
    \/ WriteDockerfile
    \/ EcrLogin
    \/ DockerBuild
    \/ CreateModel
    \/ DeployCell
    \/ PredictSend
    \/ PredictRecv
    \/ PrintOutput
    \/ DeleteEndpointCell
    \/ HostStart
    \/ ClientInvoke
    \/ HostServe

Spec == Init /\ [][Next]_vars

\* ================================================================ properties
CellIndexes == 1..Len(Cells)
\* cells that have run to completion, and cells that have begun
CompletedCells == { Cells[i] : i \in { j \in CellIndexes : j < pc } }
StartedCells ==
    CompletedCells \cup (IF halted \/ (Cur = "predict" /\ Sent # {}) THEN {Cells[pc]} ELSE {})
Completed(c) == c \in CompletedCells

ArchiveMembers == { archive[i] : i \in 1..Len(archive) }

\* C1: once the archive cell has completed, model.tar.gz exists and its
\* members are exactly code/serve.py, bert/data/qa.py, bert_qa_evaluate.py,
\* bert_qa-7eb11865.params and vocab.json, each stored once under the path it
\* was added with.
C1_ArchiveContents ==
    Completed("archive") =>
        /\ "model.tar.gz" \in disk
        /\ ArchiveMembers = { "code/serve.py", "bert/data/qa.py", "bert_qa_evaluate.py",
                              "bert_qa-7eb11865.params", "vocab.json" }
        /\ Len(archive) = 5

C1_Witness ==
    /\ Completed("archive")
    /\ Len(archive) = 5
    /\ "code/serve.py" \in ArchiveMembers

\* C3: every predictor.predict call is made while the endpoint that deploy
\* created is in service: never before deploy, never after delete_endpoint.
C3_PredictOnLiveEndpoint ==
    /\ \A i \in 1..Len(predictLog) : predictLog[i] = "InService"
    /\ Len(predictLog) > 0 => Completed("deploy")

C3_Witness ==
    /\ Len(predictLog) = 1
    /\ endpoint = "Deleted"
    /\ Done

\* C4: when the notebook has run to its end, the endpoint that deploy
\* launched has been removed; no endpoint is in service.
C4_NoEndpointLeft ==
    Done => /\ endpoint = "Deleted"
            /\ hostState = "down"

C4_Witness ==
    /\ Done
    /\ Completed("deploy")
    /\ endpoint = "Deleted"

Steps == 1..4
CellsOfStep(s) == { Cells[i] : i \in { j \in CellIndexes : StepOf(Cells[j]) = s } }
StepStarted(s) == CellsOfStep(s) \cap StartedCells # {}
StepCompleted(s) == CellsOfStep(s) \subseteq CompletedCells
StepInProgress(s) == StepStarted(s) /\ ~StepCompleted(s)

\* C5: the four sections run in the order (a) callbacks, (b) archive,
\* (c) container image, (d) deploy/predict/delete: a section has begun only
\* if every earlier section has completed, and at most one section is in
\* progress.
C5_LinearSteps ==
    /\ \A s \in Steps : StepStarted(s) => \A r \in 1..(s - 1) : StepCompleted(r)
    /\ Cardinality({ s \in Steps : StepInProgress(s) }) <= 1

C5_Witness ==
    /\ StepInProgress(4)
    /\ \A r \in 1..3 : StepCompleted(r)
    /\ Sent # {}

\* C7: the entry point the deployed model is configured with names the file
\* the archive stores as code/serve.py.
C7_EntryPointIsArchivedServe ==
    sagemaker_model.t = "MXNetModel" =>
        /\ EntryPointFile(sagemaker_model) = "code/serve.py"
        /\ EntryPointFile(sagemaker_model) \in ArchiveMembers

\* ------------------------------------------------- properties of the callbacks
Answered == { i \in 1..Len(requests) : requests[i].status = "ok" }
\* ids of the examples a request carries: positions, counted from 0
ExampleIds(r) == { i - 1 : i \in 1..Len(r.input.v) }

IsStrList(x) ==
    /\ x.t = "list"
    /\ \A j \in 1..Len(x.v) : x.v[j].t = "str"

\* C2: the body transform_fn returns for a JSON list of examples is a JSON
\* document that decodes to a mapping whose keys are example ids of the
\* request and whose values are lists of strings.
C2_JsonInJsonOut ==
    \A i \in Answered :
        LET r == requests[i]
        IN  /\ r.input.t = "jarr"
            /\ r.body.t = "jobj"
            /\ LET d == json_loads(r.body)
               IN  /\ d.t = "dict"
                   /\ \A k \in DOMAIN d.v :
                         /\ k \in { JsonKey(e) : e \in ExampleIds(r) }
                         /\ IsStrList(d.v[k])

C2_Witness ==
    \E i \in Answered :
        /\ requests[i].src = "client"
        /\ Len(requests[i].input.v) = 1
        /\ requests[i].body.t = "jobj"

IsHandle(m) ==
    /\ m.t = "tuple"
    /\ Len(m.v) = 3
    /\ m.v[1].kind = "BertForQA"
    /\ m.v[2].kind = "Vocab"
    /\ m.v[3].kind = "SQuADTransform"

C8_HandleIsTriple ==
    /\ \A i \in 1..Len(modelFnLog) : modelFnLog[i].ok => IsHandle(modelFnLog[i].value)
    /\ \A i \in 1..Len(requests) :
          requests[i].calls > 0 =>
              /\ IsHandle(requests[i].model)
              /\ requests[i].err # "ValueError"

C8_Witness ==
    /\ hostState = "ready"
    /\ handle.t = "tuple"
    /\ \E i \in Answered : requests[i].calls = 1 /\ requests[i].src = "predictor"

\* C9: a response has exactly one entry per example of its request, keyed by
\* the example's id: N examples give N entries, and the notebook's two
\* examples give an output of two entries.
C9_OneEntryPerExample ==
    /\ \A i \in Answered :
          LET r == requests[i]
          IN  /\ DOMAIN r.body.v = { JsonKey(e) : e \in ExampleIds(r) }
              /\ Cardinality(DOMAIN r.body.v) = Len(r.input.v)
    /\ Completed("predict") => Cardinality(DOMAIN output.v) = Len(my_test_examples.v)

C9_Witness ==
    /\ \E i \in Answered :
          /\ Len(requests[i].input.v) = MaxExamples
          /\ Cardinality(DOMAIN requests[i].body.v) = MaxExamples
    /\ Completed("predict")

\* what the notebook's recorded output shows for each candidate
Expected(c) ==
    CASE c.text = "Denver Broncos" -> "99.36% \t Denver Broncos"
      [] c.text = "The American Football Conference (AFC) champion Denver Broncos" ->
            "0.23% \t The American Football Conference (AFC) champion Denver Broncos"
      [] c.text = "Broncos" -> "0.20% \t Broncos"
      [] c.text = "AFC" -> "0.11% \t AFC"
      [] c.text = "empty" -> "0.00% \t empty"

\* C10: the entry of every example is a list of exactly three strings, the
\* i-th being '<probability of nbest[i] as a percentage>% \t <text of nbest[i]>'
\* for the first three candidates, in their order.
C10_ThreeFormattedCandidates ==
    \A i \in Answered :
        LET r == requests[i]
        IN  \A e \in 1..Len(r.input.v) :
                LET entry == r.body.v[JsonKey(e - 1)]
                    nbest == r.nbests[e]
                IN  /\ entry.t = "jarr"
                    /\ Len(entry.v) = 3
                    /\ \A j \in 1..3 : entry.v[j] = JStr(Expected(nbest[j]))

C10_Witness ==
    \E i \in Answered :
        /\ Len(requests[i].input.v) >= 1
        /\ Len(requests[i].nbests[1]) > 3
        /\ requests[i].body.v[JsonKey(0)].v[1] = JStr("99.36% \t Denver Broncos")

\* --------------------------------------------------------- failing requests
Served == { i \in 1..Len(requests) : requests[i].calls = 1 }
\* the examples of a request for which predict gives fewer than three candidates
Short(r) == { e \in 1..ExamplesIn(r.input) : Len(NetResults(r.input)[e]) < 3 }

\* C11: a transform_fn call whose input_data is not JSON, or in which some
\* example has fewer than three n-best candidates, raises: the request ends in
\* an error that names the exception, no body is returned (not even for the
\* examples that had three candidates), and a predict call answered by an
\* error leaves the notebook without an output.
C11_ErrorsPropagate ==
    /\ \A i \in Served :
          LET r == requests[i]
          IN  /\ r.input.t = "notjson" =>
                    /\ r.status = "error"
                    /\ r.err = "JSONDecodeError"
                    /\ r.body.t = "None"
              /\ (r.input.t = "jarr" /\ Short(r) # {}) =>
                    /\ r.status = "error"
                    /\ r.err \in {"IndexError", "LibraryError"}
                    /\ r.body.t = "None"
    /\ \A i \in Sent :
          requests[i].status = "error" => (~Completed("predict") /\ output.t = "None")

C11_Witness ==
    /\ \E i \in Served :
          /\ requests[i].input.t = "jarr"
          /\ Short(requests[i]) = {2}
          /\ requests[i].err = "IndexError"
          /\ requests[i].body.t = "None"
    /\ \E i \in Served :
          /\ requests[i].input.t = "notjson"
          /\ requests[i].err = "JSONDecodeError"

\* C12: the content type transform_fn returns is its output_content_type
\* argument as passed, whatever the body and the input content type; when the
\* caller leaves the argument out, it is None.
C12_ContentTypePassedThrough ==
    \A i \in Answered :
        LET r == requests[i]
        IN  /\ r.ctype \in ContentTypes
            /\ r.accept = Omitted => r.ctype = NoneType
            /\ r.accept # Omitted => r.ctype = r.accept

C12_Witness ==
    \E i \in Answered :
        /\ requests[i].accept = Omitted
        /\ requests[i].content_type = "application/json"
        /\ requests[i].ctype = NoneType
        /\ Len(requests[i].input.v) >= 1

====
